---- MODULE Spec2Model ----
(***************************************************************************)
(* The two BLE GATT peripherals of the repository as one state machine:    *)
(*   BLESensor       (src/ble_sensor.py)  Blue-ST service, SWITCH + TEMP    *)
(*   BLEenvironment  (src/main.py)        SIG environmental sensing         *)
(* The class is fixed at construction (variable cls).  The BLE stack is the *)
(* environment: it delivers the IRQ events, holds the characteristic       *)
(* storage and receives the gatts_* / gap_advertise calls, which the model  *)
(* records, for the operation handled last, in the sequence ops.            *)
(***************************************************************************)
EXTENDS Integers, Sequences, FiniteSets, TLC

\* ---------------------------------------------------------------- bounds
NumHandles == 2       \* connection handles the stack hands out: 1..NumHandles

\* ------------------------------------------------------ program constants
IRQ_CENTRAL_CONNECT == 1
IRQ_CENTRAL_DISCONNECT == 2
IRQ_GATTS_WRITE == 3
IRQ_GATTS_INDICATE_DONE == 20
ACK_CONSTANT == 1000

Handles == 1..NumHandles
\* temperatures in sixteenths of a degree, the MCP9808 resolution (0.0625):
\* 0.0, 21.5 and -0.5 degrees
TempSamples == {0, 344, 0 - 8}
DEFAULT_NAME == "WB55-MPY-TARQUINY"
Names == {DEFAULT_NAME, "custom"}
Classes == {"BLESensor", "BLEenvironment"}

VARIABLES
    cls,          \* which class was constructed
    connections,  \* self._connections
    storage,      \* the stack's value of each registered characteristic
    payload,      \* self._payload
    adv_data,     \* adv_data of the latest gap_advertise call
    led_bleu,     \* pyb.LED(3)
    led_rouge,    \* pyb.LED(1)
    pending,      \* the GATTS_WRITE event the stack has raised, not yet handled
    rejecting,    \* connections whose notify/indicate the stack refuses
    last,         \* the operation handled last
    ops,          \* the calls and side effects of that operation, in order
    raised,       \* the exception that left that operation, or "none"
    demo,         \* the while loop of demo(): "loop", "stopped", or "none"
    link          \* per handle, its latest connect/disconnect event, or "none"

vars == <<cls, connections, storage, payload, adv_data, led_bleu, led_rouge,
          pending, rejecting, last, ops, raised, demo, link>>

\* the conn of a call or operation that names no connection: no handle
NoConn == NumHandles + 1
NoPending == [conn |-> NoConn, vh |-> "none"]

\* ------------------------------------------------------------ the service
temperature_handle == "temperature"
switch_handle == "switch"
temp_handle == "temp"
humi_handle == "humi"

\* the handles gatts_register_services returns, in declaration order
ValueHandles(c) ==
    IF c = "BLESensor" THEN {temperature_handle, switch_handle}
    ELSE {temp_handle, humi_handle}

\* the characteristic declared with FLAG_WRITE
WriteFlag(vh) == vh = switch_handle

\* the payloads a central writes: empty, one byte (off, on, other values) and
\* two bytes whose first and last differ
Payloads == {<<>>, <<0>>, <<1>>, <<2>>, <<255>>, <<0, 1>>}

\* ----------------------------------------------------------------- codec
Pow2(n) == 2 ^ n

RECURSIVE Log2Floor(_)
Log2Floor(a) == IF a < 2 THEN 0 ELSE 1 + Log2Floor(a \div 2)

Abs(k) == IF k < 0 THEN 0 - k ELSE k

\* pack('<HB', h, b): u16 little-endian, then u8
pack_HB_be(h, b) == <<h \div 256, h % 256, b>>
pack_HB(h, b) == <<h % 256, h \div 256, b>>

\* pack('>f', t): the same encoding with the bytes in the opposite order
pack_f_be(k) ==
    IF k = 0 THEN <<0, 0, 0, 0>>
    ELSE LET a == IF k < 0 THEN 0 - k ELSE k
             e == Log2Floor(a)
             exponent == e - 4 + 127
             mant == (a - Pow2(e)) * Pow2(23 - e)
             low == (exponent % 2) * Pow2(23) + mant
             top == (IF k < 0 THEN 128 ELSE 0) + exponent \div 2
         IN  <<top, low \div 65536, (low \div 256) % 256, low % 256>>

\* pack('<f', t) for t = k/16: IEEE-754 single, little-endian.
\* sign(1) exponent(8) mantissa(23); the top byte is sign and the high seven
\* exponent bits, the low three bytes are the last exponent bit and the mantissa
pack_f(k) ==
    IF k = 0 THEN <<0, 0, 0, 0>>
    ELSE LET a == Abs(k)
             e == Log2Floor(a)
             exponent == e - 4 + 127
             mant == (a - Pow2(e)) * Pow2(23 - e)
             low == (exponent % 2) * Pow2(23) + mant
             top == (IF k < 0 THEN 128 ELSE 0) + exponent \div 2
         IN  <<low % 256, (low \div 256) % 256, low \div 65536, top>>

\* ------------------------------------------------------- recorded calls
Call(name, conn, attr, data, ok) ==
    [call |-> name, conn |-> conn, attr |-> attr, data |-> data, ok |-> ok]

GapAdvertise == Call("gap_advertise", NoConn, "connectable=True", <<>>, TRUE)
GattsRead(vh) == Call("gatts_read", NoConn, vh, <<>>, TRUE)
GattsWrite(vh, data) == Call("gatts_write", NoConn, vh, data, TRUE)
GattsNotify(conn, vh) == Call("gatts_notify", conn, vh, <<>>, conn \notin rejecting)
GattsIndicate(conn, vh) == Call("gatts_indicate", conn, vh, <<>>, conn \notin rejecting)
Led(name) == Call(name, NoConn, "", <<>>, TRUE)

\* adv_payload(name=..., ...) of the external ble_advertising helper: the
\* frame is determined by the class (its fixed fields) and the name
adv_payload(c, name) == [name |-> name, fields |-> c]

Op(kind, conn, vh, data, temp, notify, indicate) ==
    [kind |-> kind, conn |-> conn, vh |-> vh, data |-> data, temp |-> temp,
     notify |-> notify, indicate |-> indicate]

\* ---------------------------------------------------------- construction
\* the calls __init__ makes, in order: irq, gatts_register_services, then
\* _advertise() (which in BLESensor also switches the blue LED off)
ConstructionCalls_advertise_first(c) ==
    <<GapAdvertise,
      Call("irq", NoConn, "", <<>>, TRUE),
      Call("gatts_register_services", NoConn, "", <<>>, TRUE)>>
    \o (IF c = "BLESensor" THEN <<Led("led_bleu.off")>> ELSE <<>>)
ConstructionCalls(c) ==
    <<Call("irq", NoConn, "", <<>>, TRUE),
      Call("gatts_register_services", NoConn, "", <<>>, TRUE),
      GapAdvertise>>
    \o (IF c = "BLESensor" THEN <<Led("led_bleu.off")>> ELSE <<>>)

Init ==
    /\ cls \in Classes
    /\ connections = {}
    /\ storage = [vh \in ValueHandles(cls) |-> <<>>]
    /\ \E name \in Names :
          /\ adv_data = adv_payload(cls, name)
          /\ payload = IF cls = "BLESensor" THEN adv_payload(cls, DEFAULT_NAME)
                       ELSE adv_payload(cls, name)
    /\ led_bleu = FALSE
    /\ led_rouge = FALSE
    /\ pending = NoPending
    /\ rejecting = {}
    /\ last = Op("init", NoConn, "none", <<>>, 0, FALSE, FALSE)
    /\ ops = ConstructionCalls(cls)
    /\ raised = "none"
    /\ demo = IF cls = "BLEenvironment" THEN "loop" ELSE "none"
    /\ link = [h \in Handles |-> "none"]

\* events are delivered one at a time: nothing else runs while a write event
\* the stack has raised waits for _irq
Idle == pending = NoPending

\* a connect event for a handle whose latest link event is already a connect
\* is recorded as "connect_again"
ConnectKind(conn_handle) ==
    IF link[conn_handle] = "connect" THEN "connect_again" ELSE "connect"

\* ------------------------------------------------------------- registry
\* set.add / set.remove on self._connections (remove of a member)
RegistryAdd_toggle(conn_handle) ==
    IF conn_handle \in connections THEN connections \ {conn_handle}
    ELSE connections \cup {conn_handle}
RegistryAdd(conn_handle) == connections \cup {conn_handle}
RegistryRemove_clear(conn_handle) == {}
RegistryRemove(conn_handle) == connections \ {conn_handle}

\* the orders in which "for conn_handle in self._connections" may run
Orders(S) ==
    {o \in [1..Cardinality(S) -> S] : \A i, j \in 1..Cardinality(S) : o[i] = o[j] => i = j}

\* a stack call that raises ends the operation: the calls made are those up
\* to and including the first one refused
FirstRejected(plan) ==
    IF \E i \in 1..Len(plan) : ~plan[i].ok
    THEN CHOOSE i \in 1..Len(plan) : ~plan[i].ok /\ \A j \in 1..(i - 1) : plan[j].ok
    ELSE 0
Issued(plan) ==
    IF FirstRejected(plan) = 0 THEN plan ELSE SubSeq(plan, 1, FirstRejected(plan))
Escaped(plan) == IF FirstRejected(plan) = 0 THEN "none" ELSE "OSError"

\* --------------------------------------------------- BLESensor (ble_sensor.py)
\* _advertise: gap_advertise(..., adv_data=self._payload, connectable=True),
\* then led_bleu.off()
BLESensor_advertise_no_led == <<GapAdvertise>>
BLESensor_advertise == <<GapAdvertise, Led("led_bleu.off")>>

\* the blue LED after a sequence of calls: as its last on()/off() left it
BlueLedAfter(calls, led) ==
    LET K == {i \in 1..Len(calls) : calls[i].call \in {"led_bleu.on", "led_bleu.off"}}
    IN  IF K = {} THEN led
        ELSE calls[CHOOSE i \in K : \A j \in K : j <= i].call = "led_bleu.on"

BLESensor_irq_connect(conn_handle) ==
    /\ cls = "BLESensor" /\ Idle
    /\ connections' = RegistryAdd(conn_handle)
    /\ led_bleu' = TRUE
    /\ last' = Op(ConnectKind(conn_handle), conn_handle, "none", <<>>, 0, FALSE, FALSE)
    /\ ops' = <<Led("led_bleu.on")>>
    /\ raised' = "none"
    /\ link' = [link EXCEPT ![conn_handle] = "connect"]
    /\ UNCHANGED <<cls, demo, storage, payload, adv_data, led_rouge, pending, rejecting>>

BLESensor_irq_disconnect(conn_handle) ==
    /\ cls = "BLESensor" /\ Idle
    /\ last' = Op("disconnect", conn_handle, "none", <<>>, 0, FALSE, FALSE)
    /\ link' = [link EXCEPT ![conn_handle] = "disconnect"]
    /\ IF conn_handle \in connections
       THEN /\ connections' = RegistryRemove(conn_handle)
            /\ adv_data' = payload
            /\ led_bleu' = BlueLedAfter(BLESensor_advertise, led_bleu)
            /\ ops' = BLESensor_advertise
            /\ raised' = "none"
       ELSE \* set.remove of an absent element raises KeyError
            /\ raised' = "KeyError"
            /\ ops' = <<>>
            /\ UNCHANGED <<connections, adv_data, led_bleu>>
    /\ UNCHANGED <<cls, demo, storage, payload, led_rouge, pending, rejecting>>

\* the stack stores a central's write in the characteristic and raises
\* _IRQ_GATTS_WRITE; only the SWITCH characteristic is declared writable
CentralWrites(conn_handle, value_handle, data) ==
    /\ cls = "BLESensor" /\ Idle
    /\ storage' = IF WriteFlag(value_handle)
                  THEN [storage EXCEPT ![value_handle] = data] ELSE storage
    /\ pending' = [conn |-> conn_handle, vh |-> value_handle]
    /\ UNCHANGED <<cls, demo, connections, payload, adv_data, led_bleu, led_rouge,
                   rejecting, last, ops, raised, link>>

\* line 98: if conn_handle in self._connections and value_handle == self._switch_handle
WriteAccepted_anyconn(conn_handle, value_handle) == value_handle = switch_handle
WriteAccepted_anychar(conn_handle, value_handle) == conn_handle \in connections
WriteAccepted(conn_handle, value_handle) ==
    conn_handle \in connections /\ value_handle = switch_handle

\* line 102: self._ble.gatts_notify(conn_handle, self._switch_handle)
SetToSeq(S) == CHOOSE o \in Orders(S) : TRUE
WriteAckNotify_all(conn_handle) ==
    [i \in 1..Cardinality(connections) |->
        GattsNotify(SetToSeq(connections)[i], switch_handle)]
WriteAckNotify(conn_handle) == <<GattsNotify(conn_handle, switch_handle)>>

\* lines 100-107: the calls of an accepted write in program order: gatts_read,
\* gatts_write of the acknowledgement, gatts_notify, then the red LED
AcceptedWriteCalls_led_first(ack, notify, led) ==
    <<GattsRead(switch_handle), led, GattsWrite(switch_handle, ack)>> \o notify
AcceptedWriteCalls(ack, notify, led) ==
    <<GattsRead(switch_handle), GattsWrite(switch_handle, ack)>> \o notify \o <<led>>

\* line 104: if data_received[0] == 1
RedLedOn_nonzero(data_received) == data_received[1] # 0
RedLedOn(data_received) == data_received[1] = 1

BLESensor_irq_write ==
    /\ cls = "BLESensor" /\ pending # NoPending
    /\ LET conn_handle == pending.conn
           value_handle == pending.vh
           data_received == storage[switch_handle]
       IN  /\ last' = Op("write", conn_handle, value_handle, data_received, 0, FALSE, FALSE)
           /\ link' = link
           /\ IF WriteAccepted(conn_handle, value_handle)
              THEN IF Len(data_received) = 0
                   THEN \* data_received[0] of an empty bytes raises IndexError
                        /\ raised' = "IndexError"
                        /\ ops' = <<GattsRead(switch_handle)>>
                        /\ UNCHANGED <<storage, led_rouge>>
                   ELSE LET ack == pack_HB(ACK_CONSTANT, data_received[1])
                            notify == WriteAckNotify(conn_handle)
                        IN  /\ storage' = [storage EXCEPT ![switch_handle] = ack]
                            /\ raised' = Escaped(notify)
                            /\ IF FirstRejected(notify) = 0
                               THEN /\ led_rouge' = RedLedOn(data_received)
                                    /\ ops' = AcceptedWriteCalls(ack, notify,
                                                  Led(IF RedLedOn(data_received)
                                                      THEN "led_rouge.on"
                                                      ELSE "led_rouge.off"))
                               ELSE /\ led_rouge' = led_rouge
                                    /\ ops' = <<GattsRead(switch_handle),
                                                GattsWrite(switch_handle, ack)>>
                                              \o Issued(notify)
              ELSE /\ raised' = "none"
                   /\ ops' = <<>>
                   /\ UNCHANGED <<storage, led_rouge>>
    /\ pending' = NoPending
    /\ UNCHANGED <<cls, demo, connections, payload, adv_data, led_bleu, rejecting>>

\* any event the if/elif chain of _irq has no branch for
BLESensor_irq_other(event) ==
    /\ cls = "BLESensor" /\ Idle
    /\ event \notin {IRQ_CENTRAL_CONNECT, IRQ_CENTRAL_DISCONNECT, IRQ_GATTS_WRITE}
    /\ last' = Op("other", NoConn, "none", <<>>, 0, FALSE, FALSE)
    /\ ops' = <<>>
    /\ raised' = "none"
    /\ link' = link
    /\ UNCHANGED <<cls, demo, connections, storage, payload, adv_data, led_bleu,
                   led_rouge, pending, rejecting>>

\* the if/elif chain of BLESensor._irq
BLESensor_branch(event) ==
    IF event = IRQ_CENTRAL_CONNECT THEN "connect"
    ELSE IF event = IRQ_CENTRAL_DISCONNECT THEN "disconnect"
    ELSE IF event = IRQ_GATTS_WRITE THEN "write"
    ELSE "none"

\* _irq(event, data); a write event is the one the stack has raised
BLESensor_irq(event, conn_handle) ==
    CASE BLESensor_branch(event) = "connect" -> BLESensor_irq_connect(conn_handle)
      [] BLESensor_branch(event) = "disconnect" -> BLESensor_irq_disconnect(conn_handle)
      [] BLESensor_branch(event) = "write" ->
            conn_handle = pending.conn /\ BLESensor_irq_write
      [] OTHER -> BLESensor_irq_other(event)

\* the calls one member of the registry gets in a fan-out
MemberCalls_notifyonly(conn_handle, notify, indicate, vh) ==
    IF notify \/ indicate THEN <<GattsNotify(conn_handle, vh)>> ELSE <<>>
MemberCalls(conn_handle, notify, indicate, vh) ==
    (IF notify THEN <<GattsNotify(conn_handle, vh)>> ELSE <<>>)
    \o (IF indicate THEN <<GattsIndicate(conn_handle, vh)>> ELSE <<>>)

RECURSIVE FanOut(_, _, _, _)
FanOut(order, notify, indicate, vh) ==
    IF order = <<>> THEN <<>>
    ELSE MemberCalls(Head(order), notify, indicate, vh)
         \o FanOut(Tail(order), notify, indicate, vh)

\* line 111: gatts_write(self._temperature_handle, pack('<f', temperature)),
\* before the test of notify
set_data_temperature_stored(temperature, notify) ==
    [storage EXCEPT ![temperature_handle] = pack_f(temperature)]

\* line 116, a print indented with spaces, is read where it stands: in the
\* body of the loop; it changes no state
set_data_temperature(temperature, notify) ==
    /\ cls = "BLESensor" /\ Idle
    /\ \E order \in Orders(connections) :
          LET plan == IF notify THEN FanOut(order, TRUE, FALSE, temperature_handle)
                      ELSE <<>>
          IN  /\ ops' = <<GattsWrite(temperature_handle, pack_f(temperature))>>
                        \o Issued(plan)
              /\ raised' = Escaped(plan)
    /\ storage' = set_data_temperature_stored(temperature, notify)
    /\ last' = Op("publish", NoConn, temperature_handle, <<>>, temperature, notify, FALSE)
    /\ link' = link
    /\ UNCHANGED <<cls, demo, connections, payload, adv_data, led_bleu, led_rouge,
                   pending, rejecting>>

\* ------------------------------------------------- BLEenvironment (main.py)
BLEenvironment_advertise == <<GapAdvertise>>

BLEenvironment_irq_connect(conn_handle) ==
    /\ cls = "BLEenvironment" /\ Idle
    /\ connections' = RegistryAdd(conn_handle)
    /\ last' = Op(ConnectKind(conn_handle), conn_handle, "none", <<>>, 0, FALSE, FALSE)
    /\ ops' = <<>>
    /\ raised' = "none"
    /\ link' = [link EXCEPT ![conn_handle] = "connect"]
    /\ UNCHANGED <<cls, demo, storage, payload, adv_data, led_bleu, led_rouge,
                   pending, rejecting>>

BLEenvironment_irq_disconnect(conn_handle) ==
    /\ cls = "BLEenvironment" /\ Idle
    /\ last' = Op("disconnect", conn_handle, "none", <<>>, 0, FALSE, FALSE)
    /\ link' = [link EXCEPT ![conn_handle] = "disconnect"]
    /\ IF conn_handle \in connections
       THEN /\ connections' = RegistryRemove(conn_handle)
            /\ adv_data' = payload
            /\ ops' = BLEenvironment_advertise
            /\ raised' = "none"
       ELSE \* set.remove of an absent element raises KeyError
            /\ raised' = "KeyError"
            /\ ops' = <<>>
            /\ UNCHANGED <<connections, adv_data>>
    /\ UNCHANGED <<cls, demo, storage, payload, led_bleu, led_rouge, pending, rejecting>>

BLEenvironment_irq_other(event) ==
    /\ cls = "BLEenvironment" /\ Idle
    /\ event \notin {IRQ_CENTRAL_CONNECT, IRQ_CENTRAL_DISCONNECT}
    /\ last' = Op("other", NoConn, "none", <<>>, 0, FALSE, FALSE)
    /\ ops' = <<>>
    /\ raised' = "none"
    /\ link' = link
    /\ UNCHANGED <<cls, demo, connections, storage, payload, adv_data, led_bleu,
                   led_rouge, pending, rejecting>>

\* the if/elif chain of BLEenvironment._irq
BLEenvironment_branch_else(event) ==
    IF event = IRQ_CENTRAL_CONNECT THEN "connect" ELSE "disconnect"
BLEenvironment_branch(event) ==
    IF event = IRQ_CENTRAL_CONNECT THEN "connect"
    ELSE IF event = IRQ_CENTRAL_DISCONNECT THEN "disconnect"
    ELSE "none"

BLEenvironment_irq(event, conn_handle) ==
    CASE BLEenvironment_branch(event) = "connect" -> BLEenvironment_irq_connect(conn_handle)
      [] BLEenvironment_branch(event) = "disconnect" ->
            BLEenvironment_irq_disconnect(conn_handle)
      [] OTHER -> BLEenvironment_irq_other(event)

\* line 88: gatts_write(self._temp_handle, pack("<f", temp_deg_c)), before the
\* test of the flags
set_temp_stored_if_flagged(temp_deg_c, notify, indicate) ==
    IF notify \/ indicate THEN [storage EXCEPT ![temp_handle] = pack_f(temp_deg_c)]
    ELSE storage
set_temp_stored(temp_deg_c, notify, indicate) ==
    [storage EXCEPT ![temp_handle] = pack_f(temp_deg_c)]

set_temp_call(temp_deg_c, notify, indicate) ==
    /\ \E order \in Orders(connections) :
          LET plan == IF notify \/ indicate
                      THEN FanOut(order, notify, indicate, temp_handle)
                      ELSE <<>>
          IN  /\ ops' = <<GattsWrite(temp_handle, pack_f(temp_deg_c))>> \o Issued(plan)
              /\ raised' = Escaped(plan)
    /\ storage' = set_temp_stored(temp_deg_c, notify, indicate)
    /\ last' = Op("publish", NoConn, temp_handle, <<>>, temp_deg_c, notify, indicate)
    /\ link' = link
    /\ UNCHANGED <<cls, connections, payload, adv_data, led_bleu, led_rouge,
                   pending, rejecting>>

set_temp(temp_deg_c, notify, indicate) ==
    /\ cls = "BLEenvironment" /\ Idle
    /\ set_temp_call(temp_deg_c, notify, indicate)
    /\ UNCHANGED demo

\* --------------------------------------------------------- demo (main.py)
\* what the try block of one iteration gives: a temperature, or an exception
\* of read_mcp9808_temperature (or of the display)
Readings ==
    {[ok |-> TRUE, value |-> t] : t \in TempSamples} \cup {[ok |-> FALSE, value |-> 0]}

\* the variable temperature after the try/except: the except clause sets None
demo_temperature_default(reading) == [none |-> FALSE, value |-> reading.value]
demo_temperature(reading) ==
    IF reading.ok THEN [none |-> FALSE, value |-> reading.value]
    ELSE [none |-> TRUE, value |-> 0]

\* one iteration of "while True"; an exception that leaves set_temp leaves
\* the loop
demo_iteration(reading) ==
    /\ cls = "BLEenvironment" /\ Idle /\ demo = "loop"
    /\ LET temperature == demo_temperature(reading)
       IN  IF ~temperature.none
           THEN /\ set_temp_call(temperature.value, TRUE, FALSE)
                /\ demo' = IF raised' = "none" THEN "loop" ELSE "stopped"
           ELSE /\ last' = Op("skip", NoConn, "none", <<>>, 0, FALSE, FALSE)
                /\ ops' = <<>>
                /\ raised' = "none"
                /\ UNCHANGED <<cls, demo, connections, storage, payload, adv_data,
                               led_bleu, led_rouge, pending, rejecting, link>>

\* ------------------------------------------------------------ the stack
\* the stack starts to refuse notify/indicate for a connection (OSError)
StackRejects(conn_handle) ==
    /\ pending = NoPending
    /\ conn_handle \notin rejecting
    /\ rejecting' = rejecting \cup {conn_handle}
    /\ UNCHANGED <<cls, demo, connections, storage, payload, adv_data, led_bleu,
                   led_rouge, pending, last, ops, raised, link>>

\* the event kinds the sources name
Events == {IRQ_CENTRAL_CONNECT, IRQ_CENTRAL_DISCONNECT, IRQ_GATTS_WRITE,
           IRQ_GATTS_INDICATE_DONE}
OtherEvents == {IRQ_GATTS_WRITE, IRQ_GATTS_INDICATE_DONE}

Next ==
    \/ \E e \in Events, h \in Handles : BLESensor_irq(e, h)
    \/ \E h \in Handles, vh \in ValueHandles("BLESensor"), data \in Payloads :
          CentralWrites(h, vh, data)
    \/ \E t \in TempSamples, n \in BOOLEAN : set_data_temperature(t, n)
    \/ \E e \in Events, h \in Handles : BLEenvironment_irq(e, h)
    \/ \E t \in TempSamples, n \in BOOLEAN, i \in BOOLEAN : set_temp(t, n, i)
    \/ \E r \in Readings : demo_iteration(r)

\* the stack accepts every call
Spec == Init /\ [][Next]_vars

\* the stack may refuse notify/indicate
NextStackRejects == Next \/ \E h \in Handles : StackRejects(h)
SpecStackRejects == Init /\ [][NextStackRejects]_vars

\* ================================================================ claims
\* the handles with a connect that no later disconnect of the same handle follows
Unmatched == {h \in Handles : link[h] = "connect"}

\* the positions of the calls named in a sequence of calls
CallsOf(names, conn) ==
    {i \in 1..Len(ops) : ops[i].call \in names /\ ops[i].conn = conn}
CallsNamed(names) == {i \in 1..Len(ops) : ops[i].call \in names}

\* the write handled last had a registered handle, the SWITCH characteristic
\* and a payload with a first byte
AcceptedWrite ==
    /\ last.kind = "write" /\ pending = NoPending
    /\ last.conn \in connections
    /\ last.vh = switch_handle
    /\ Len(last.data) >= 1

\* C1: after every sequence of connect, disconnect, write and publish
\* operations the registry is the set of handles with a connect that no later
\* disconnect follows; writes and publishes neither add nor remove a handle.
C1_RegistryIsUnmatchedConnects == connections = Unmatched

C1_Witness ==
    /\ \E h \in Handles : link[h] = "connect" /\ h \in connections
    /\ \E h \in Handles : link[h] = "disconnect" /\ h \notin connections
    /\ last.kind \in {"write", "publish"}

\* C2: a disconnect of a handle that is not in the registry leaves the
\* registry unchanged and no exception leaves _irq.
C2_StaleDisconnectIsNonFatal ==
    [][\A h \in Handles :
          ((BLESensor_irq_disconnect(h) \/ BLEenvironment_irq_disconnect(h))
             /\ h \notin connections)
          => (connections' = connections /\ raised' = "none")]_vars

\* C3: every disconnect, of a registered handle or not, re-arms advertising
\* (gap_advertise with connectable=True) before the callback returns.
C3_DisconnectRearmsAdvertising ==
    last.kind = "disconnect" => \E i \in 1..Len(ops) : ops[i] = GapAdvertise

\* C4: a write event whose connection handle is not in the registry changes
\* neither the red LED nor the storage nor the registry, issues no call and
\* raises nothing.
C4_StaleWriteIsNoOp ==
    [][(cls = "BLESensor" /\ pending # NoPending /\ pending.conn \notin connections)
          => (/\ UNCHANGED <<led_rouge, storage, connections>>
              /\ ops' = <<>>
              /\ raised' = "none")]_vars

C4_Witness ==
    /\ last.kind = "write" /\ pending = NoPending
    /\ link[last.conn] = "disconnect" /\ last.conn \notin connections
    /\ last.vh = switch_handle /\ last.data = <<1>>
    /\ ~led_rouge

\* C5: a write event from a registered connection for a characteristic other
\* than SWITCH changes neither the red LED nor the storages nor the registry
\* and issues no notify.
C5_ForeignCharWriteIsNoOp ==
    [][(/\ cls = "BLESensor" /\ pending # NoPending
        /\ pending.conn \in connections /\ pending.vh # switch_handle)
          => (/\ UNCHANGED <<led_rouge, storage, connections>>
              /\ ops' = <<>>
              /\ raised' = "none")]_vars

C5_Witness ==
    /\ last.kind = "write" /\ pending = NoPending
    /\ last.conn \in connections
    /\ last.vh = temperature_handle

\* C6: after an accepted write whose first payload byte is b the SWITCH
\* storage is the three bytes 0xE8 0x03 b and the handler did not fail; the
\* packing gives these bytes for every b in 0..255.
C6_AckIsE803ThenByte ==
    /\ AcceptedWrite => (storage[switch_handle] = <<232, 3, last.data[1]>>
                         /\ raised = "none")
    /\ \A b \in 0..255 : pack_HB(ACK_CONSTANT, b) = <<232, 3, b>>

C6_Witness == AcceptedWrite /\ last.data[1] = 255 /\ storage[switch_handle] = <<232, 3, 255>>

\* C7: an accepted write from h sets the red LED exactly once and issues
\* exactly one notify, on SWITCH, to h; no other member is notified.
C7_AckNotifiesWriterOnly ==
    AcceptedWrite =>
        /\ Cardinality(CallsNamed({"led_rouge.on", "led_rouge.off"})) = 1
        /\ Cardinality(CallsNamed({"gatts_notify", "gatts_indicate"})) = 1
        /\ \A i \in CallsNamed({"gatts_notify", "gatts_indicate"}) :
              ops[i] = Call("gatts_notify", last.conn, switch_handle, <<>>, TRUE)

C7_Witness ==
    /\ AcceptedWrite /\ last.data = <<1>> /\ led_rouge
    /\ connections = Handles /\ Cardinality(connections) >= 2

\* the IEEE-754 single precision little-endian bytes of the sampled
\* temperatures 0.0, 21.5 and -0.5
IEEE754_LE(k) ==
    CASE k = 0 -> <<0, 0, 0, 0>>
      [] k = 344 -> <<0, 0, 172, 65>>
      [] k = 0 - 8 -> <<0, 0, 0, 191>>

\* C8: after a publish of v the temperature storage holds the encoding of v,
\* whatever the flags and whatever the registry holds.
C8_PublishAlwaysStores ==
    last.kind = "publish" => storage[last.vh] = IEEE754_LE(last.temp)

C8_Witness ==
    /\ last.kind = "publish" /\ ~last.notify /\ ~last.indicate
    /\ connections = {}
    /\ last.temp = 344 /\ storage[last.vh] = <<0, 0, 172, 65>>

\* C9: a publish issues, to every member of the registry, one notify if
\* notify is set and one indicate if indicate is set, nothing to anyone else,
\* and writes the storage before the first of them.
C9_FanOutPerFlags ==
    last.kind = "publish" =>
        /\ \A h \in connections :
              /\ Cardinality(CallsOf({"gatts_notify"}, h)) = IF last.notify THEN 1 ELSE 0
              /\ Cardinality(CallsOf({"gatts_indicate"}, h)) = IF last.indicate THEN 1 ELSE 0
        /\ Len(ops) >= 1 /\ ops[1].call = "gatts_write" /\ ops[1].attr = last.vh
        /\ \A i \in 2..Len(ops) :
              /\ ops[i].call \in {"gatts_notify", "gatts_indicate"}
              /\ ops[i].conn \in connections /\ ops[i].attr = last.vh

C9_Witness ==
    /\ last.kind = "publish" /\ last.notify /\ last.indicate
    /\ connections = Handles /\ Cardinality(connections) >= 2
    /\ Len(ops) = 1 + 2 * Cardinality(connections)

\* C10: a notify/indicate the stack refuses for one member of a fan-out is
\* swallowed: no error leaves the publish and every member is still sent its
\* notify/indicate.
C10_RejectedNotifyIsSwallowed ==
    last.kind = "publish" =>
        /\ raised = "none"
        /\ \A h \in connections :
              /\ last.notify => CallsOf({"gatts_notify"}, h) # {}
              /\ last.indicate => CallsOf({"gatts_indicate"}, h) # {}

\* C11: a write to SWITCH from a registered connection whose stored payload
\* is empty is a no-op: no storage change, no red LED change, no notify and no
\* exception leaving _irq.
C11_EmptyPayloadIsNoOp ==
    [][(/\ cls = "BLESensor" /\ pending # NoPending
        /\ pending.conn \in connections /\ pending.vh = switch_handle
        /\ storage[switch_handle] = <<>>)
          => (/\ UNCHANGED <<storage, led_rouge, connections>>
              /\ \A i \in 1..Len(ops') :
                    ops'[i].call \notin {"gatts_notify", "gatts_indicate"}
              /\ raised' = "none")]_vars

\* C12: every notify or indicate of the operation handled last targets a
\* handle that is in the registry, one whose latest connect/disconnect event
\* is a connect.
C12_NotifyTargetsMembers ==
    \A i \in CallsNamed({"gatts_notify", "gatts_indicate"}) :
        ops[i].conn \in connections /\ link[ops[i].conn] = "connect"

C12_Witness ==
    /\ last.kind = "publish" /\ last.notify
    /\ CallsNamed({"gatts_notify"}) # {}
    /\ \E h \in Handles : link[h] = "disconnect" /\ h \notin connections

\* C13: a connect for a handle already in the registry leaves the registry
\* as it is and raises nothing, and the next disconnect of that handle removes
\* it completely.
C13_DuplicateConnectIsIdempotent ==
    [][\A h \in Handles :
          /\ ((BLESensor_irq_connect(h) \/ BLEenvironment_irq_connect(h))
                 /\ h \in connections)
             => (connections' = connections /\ raised' = "none")
          /\ ((BLESensor_irq_disconnect(h) \/ BLEenvironment_irq_disconnect(h))
                 /\ last.kind = "connect_again" /\ last.conn = h)
             => (h \notin connections' /\ raised' = "none")]_vars

C13_Witness ==
    /\ last.kind = "connect_again" /\ last.conn \in connections
    /\ link[last.conn] = "connect"

\* C14: an iteration of the demo loop whose sensor read fails publishes
\* nothing: the storage keeps its value, no call is made, nothing is raised
\* and the loop goes on.
C14_FailedReadSkipsPublish ==
    [][\A r \in Readings :
          (demo_iteration(r) /\ ~r.ok)
          => (/\ storage' = storage
              /\ ops' = <<>>
              /\ raised' = "none"
              /\ demo' = "loop")]_vars

C14_Witness ==
    /\ last.kind = "skip" /\ demo = "loop"
    /\ storage[temp_handle] = <<0, 0, 172, 65>>
    /\ connections # {}

\* the first position in ops of a call with one of the names, 0 if none
FirstCall(names) ==
    IF CallsNamed(names) = {} THEN 0
    ELSE CHOOSE i \in CallsNamed(names) : \A j \in CallsNamed(names) : i <= j

RedLedCalls == {"led_rouge.on", "led_rouge.off"}

C16_PayloadNeverChanges ==
    [][payload' = payload /\ adv_data' = adv_data]_vars

\* C17: an IndicationAck, or any event other than connect, disconnect and
\* write, changes neither the registry nor a storage nor the LEDs nor the
\* advertising, and issues no call.
C17_OtherEventsAreDiscarded ==
    [][\A e \in Events \ {IRQ_CENTRAL_CONNECT, IRQ_CENTRAL_DISCONNECT, IRQ_GATTS_WRITE},
          h \in Handles :
          (BLESensor_irq(e, h) \/ BLEenvironment_irq(e, h))
          => (/\ UNCHANGED <<connections, storage, led_rouge, led_bleu,
                             adv_data, payload>>
              /\ ops' = <<>>
              /\ raised' = "none")]_vars

C17_Witness ==
    /\ last.kind = "other" /\ cls = "BLEenvironment"
    /\ connections # {}
    /\ storage[temp_handle] # <<>>

\* C18: right after construction the registry is empty and advertising has
\* been started exactly once, connectable, after the registration of the
\* event callback and of the service.
C18_ConstructionStartsAdvertising ==
    last.kind = "init" =>
        /\ connections = {}
        /\ \E k \in 1..Len(ops) :
              /\ ops[k] = GapAdvertise
              /\ ops[k].attr = "connectable=True"
              /\ \A j \in 1..Len(ops) : ops[j].call = "gap_advertise" => j = k
              /\ \E i \in 1..(k - 1) : ops[i].call = "irq"
              /\ \E i \in 1..(k - 1) : ops[i].call = "gatts_register_services"

C18_Witness ==
    /\ last.kind = "init"
    /\ connections = {}
    /\ Cardinality(CallsNamed({"gap_advertise"})) = 1
    /\ GapAdvertise.attr = "connectable=True"

\* C19: the red LED follows the accepted writes alone: an accepted write
\* leaves it on if and only if its first byte is 1, and off for every other
\* byte; no other step changes it.
C19_ActuatorFollowsLastWrite ==
    [][IF /\ BLESensor_irq_write
          /\ WriteAccepted(pending.conn, pending.vh)
          /\ storage[switch_handle] # <<>>
       THEN led_rouge' = (storage[switch_handle][1] = 1)
       ELSE led_rouge' = led_rouge]_vars

C19_Witness ==
    /\ AcceptedWrite
    /\ last.data = <<2>>
    /\ ~led_rouge
    /\ raised = "none"

\* C20: in BLESensor the blue LED is on only while the registry is
\* non-empty: only a connect switches it on, and every successful disconnect
\* and every start of advertising switches it off.
C20_BlueLedImpliesConnected ==
    /\ [](cls = "BLESensor" /\ led_bleu => connections # {})
    /\ [][cls = "BLESensor" =>
            /\ (led_bleu' /\ ~led_bleu) => \E h \in Handles : BLESensor_irq_connect(h)
            /\ \A h \in Handles :
                  BLESensor_irq_disconnect(h) /\ raised' = "none" => ~led_bleu'
            /\ (\E k \in 1..Len(ops') : ops'[k].call = "gap_advertise") => ~led_bleu']_vars

C20_Witness ==
    /\ cls = "BLESensor"
    /\ led_bleu
    /\ connections # {}
    /\ \E h \in Handles : link[h] = "disconnect"
====
